---- MODULE Spec2Model ----
(***************************************************************************)
(* Model of the search aggregation and entity-resolution code of           *)
(* src/app.py: the area search (sample points, pagination, deduplication,  *)
(* radius filter, output rows) and the name-mode batch                     *)
(* (search_store_by_name, its fallback, scoring, confidence).              *)
(*                                                                         *)
(* Conventions.                                                            *)
(*  - A Python string is a tuple of characters, '' is << >>.  Characters   *)
(*    outside ASCII are written by an ASCII name ("ten" is the character   *)
(*    U+5E97, "shi" U+652F, "hon" U+672C).                                 *)
(*  - An optional value (a dict key that may be missing, a variable that   *)
(*    may be None) is a set with at most one element: {} is None/missing.  *)
(*  - Coordinates are metres on a plane tangent at the search center;      *)
(*    the distance between two points is the planar distance rounded up,   *)
(*    so that comparing it with a whole number of metres is exact.         *)
(***************************************************************************)
EXTENDS Integers, Sequences, FiniteSets, TLC

VARIABLES
    \* ---- area search (src/app.py 679-948) ----
    pc,                 \* position of the area search handler
    search_query,       \* the query text
    use_radius,         \* radius mode requested
    radius_meters,      \* optional radius
    filter_takeout_only,
    search_locations,   \* sample points, in dispatch order
    loc_idx,            \* index (1-based) of the point being searched
    page,               \* page counter of the current point
    results,            \* last response of the place search
    all_places,         \* the aggregate
    place_idx,          \* index (1-based) of the next place to filter
    phone_numbers,      \* output rows
    kept_coords,        \* for each output row, place_lat/place_lon when it was kept
    paging,             \* of the current point: pages fetched, pages merged, next-page requests
    state_zoom,              \* st.session_state.zoom
    \* ---- name-mode batch (src/app.py 1041-1121) ----
    bpc,                \* position of the batch handler
    store_names,        \* input names
    use_radius_csv,     \* radius check requested
    radius_meters_csv,  \* optional radius
    center_csv,         \* center_lat_csv / center_lon_csv, both optional
    location_str_csv,   \* optional location of the requests
    idx,                \* index (1-based) of the name being resolved
    maps_results,       \* response of the primary request of the current name
    calls,              \* engines queried for the current name, in order
    outcome,            \* what search_store_by_name did: returned a record or raised
    organic,    \* response of the fallback request of the current name
    clock,              \* milliseconds the batch has spent in time.sleep
    results_list        \* output rows

area_vars == <<pc, search_query, use_radius, radius_meters, filter_takeout_only,
               search_locations, loc_idx, page, results, all_places, place_idx,
               phone_numbers, kept_coords, paging, state_zoom>>
batch_vars == <<bpc, store_names, use_radius_csv, radius_meters_csv, center_csv,
                location_str_csv, idx, maps_results, calls, outcome,
                organic, clock, results_list>>
vars == <<area_vars, batch_vars>>

----------------------------------------------------------------------------
(* Python values *)

None == {}
Some(v) == {v}
Val(o) == CHOOSE v \in o : TRUE

\* truth value of an optional string / an optional number
TruthyStr(o) == o # None /\ Val(o) # << >>
TruthyNum(o) == o # None /\ Val(o) # 0

\* dict.get(key, default) for a string-valued key
GetStr(o, default) == IF o = None THEN default ELSE Val(o)

\* x in s, for strings
Contains(sub, s) ==
    \E k \in 0..(Len(s) - Len(sub)) : SubSeq(s, k + 1, k + Len(sub)) = sub

----------------------------------------------------------------------------
(* Distances *)

RECURSIVE CeilSqrtIn(_, _, _)
CeilSqrtIn(n, lo, hi) ==
    IF lo >= hi THEN lo
    ELSE LET mid == (lo + hi) \div 2
         IN  IF mid * mid >= n THEN CeilSqrtIn(n, lo, mid)
                               ELSE CeilSqrtIn(n, mid + 1, hi)

\* a power of two h with h*h >= n
RECURSIVE SqrtBound(_, _)
SqrtBound(n, h) == IF h * h >= n THEN h ELSE SqrtBound(n, 2 * h)

\* the least d with d*d >= n
CeilSqrt(n) == CeilSqrtIn(n, 0, SqrtBound(n, 1))

calculate_distance(lat1, lon1, lat2, lon2) ==
    CeilSqrt((lat1 - lat2) * (lat1 - lat2) + (lon1 - lon2) * (lon1 - lon2))

radius_to_zoom_level_swapped(r) ==
    IF r <= 500 THEN 16
    ELSE IF r <= 1000 THEN 15
    ELSE IF r <= 2000 THEN 14
    ELSE IF r <= 5000 THEN 13
    ELSE IF r <= 10000 THEN 11
    ELSE IF r <= 20000 THEN 12
    ELSE 10

\* lines 48-65
radius_to_zoom_level(r) ==
    IF r <= 500 THEN 16
    ELSE IF r <= 1000 THEN 15
    ELSE IF r <= 2000 THEN 14
    ELSE IF r <= 5000 THEN 13
    ELSE IF r <= 10000 THEN 12
    ELSE IF r <= 20000 THEN 11
    ELSE 10

\* st.session_state.lat / lon / zoom: the search center
center_lat == 1000
center_lon == 1000
session_zoom == 14

\* the lattice filtered by axis: every point of the square of side 2.4 r
generate_search_points_square(clat, clon, r) ==
    LET grid_spacing == (r * 4) \div 10
        zoom == radius_to_zoom_level(r)
        lattice == [k \in 1..49 |-> [i |-> ((k - 1) \div 7) - 3, j |-> ((k - 1) % 7) - 3]]
        pt(c) == [lat |-> clat + c.i * grid_spacing,
                  lon |-> clon + c.j * grid_spacing,
                  zoom |-> zoom]
        keep(c) == ~(c.i = 0 /\ c.j = 0)
        kept == SelectSeq(lattice, keep)
    IN  <<[lat |-> clat, lon |-> clon, zoom |-> zoom]>>
          \o [k \in 1..Len(kept) |-> pt(kept[k])]

\* the lattice filtered by the radius itself, without the margin
generate_search_points_no_margin(clat, clon, r) ==
    LET grid_spacing == (r * 4) \div 10
        zoom == radius_to_zoom_level(r)
        lattice == [k \in 1..49 |-> [i |-> ((k - 1) \div 7) - 3, j |-> ((k - 1) % 7) - 3]]
        pt(c) == [lat |-> clat + c.i * grid_spacing,
                  lon |-> clon + c.j * grid_spacing,
                  zoom |-> zoom]
        keep(c) == /\ ~(c.i = 0 /\ c.j = 0)
                   /\ calculate_distance(clat, clon, pt(c).lat, pt(c).lon) <= r
        kept == SelectSeq(lattice, keep)
    IN  <<[lat |-> clat, lon |-> clon, zoom |-> zoom]>>
          \o [k \in 1..Len(kept) |-> pt(kept[k])]

\* The lattice walk of generate_search_points, row-major.  In the planar
\* frame one metre is one unit on both axes, so the two degree-per-metre
\* factors are 1 and the offsets are i * grid_spacing and j * grid_spacing.
generate_search_points(clat, clon, r) ==
    LET grid_spacing == (r * 4) \div 10
        grid_size == ((r * 2) \div grid_spacing) + 1
        n == 2 * grid_size + 1
        zoom == radius_to_zoom_level(r)
        lattice == [k \in 1..(n * n) |->
                      [i |-> ((k - 1) \div n) - grid_size,
                       j |-> ((k - 1) % n) - grid_size]]
        pt(c) == [lat |-> clat + c.i * grid_spacing,
                  lon |-> clon + c.j * grid_spacing,
                  zoom |-> zoom]
        keep(c) == /\ ~(c.i = 0 /\ c.j = 0)
                   /\ calculate_distance(clat, clon, pt(c).lat, pt(c).lon)
                        <= (r * 12) \div 10
        kept == SelectSeq(lattice, keep)
    IN  <<[lat |-> clat, lon |-> clon, zoom |-> zoom]>>
          \o [k \in 1..Len(kept) |-> pt(kept[k])]

----------------------------------------------------------------------------
(* Place records of the place-search service.  Every key is optional.       *)
(* address_ja is the key U+4F4F U+6240, phone_ja the key U+96FB U+8A71,     *)
(* takeout_ja the key of service_options written in katakana.               *)

Place(title, address, phone, gps, takeout) ==
    [title |-> title, address |-> address, address_ja |-> None,
     phone |-> phone, formatted_phone_number |-> None, phone_ja |-> None,
     rating |-> None, reviews |-> None, gps_coordinates |-> gps,
     service_options |-> [takeout |-> takeout, takeout_ja |-> None]]

Gps(lat, lon) == Some([latitude |-> Some(lat), longitude |-> Some(lon)])

Tel1 == <<"0", "3", "-", "1", "2", "3", "4", "-", "5", "6", "7", "8">>
Tel2 == <<"0", "6", "-", "1", "1", "-", "2", "2", "2">>

\* What the place search may return for the area query: a place inside the
\* radius, a variant of it whose name differs in letter case and leading
\* whitespace and lies outside, a later listing of the first place with
\* another phone, a place with an address and no coordinates, and a place
\* with neither.
NearPlace == Place(Some(<<"A", "b">>), Some(<<"x">>), Some(Tel1),
                   Gps(center_lat + 300, center_lon + 400), Some(TRUE))
CaseVariantPlace == Place(Some(<<" ", "a", "B">>), Some(<<"x">>), Some(Tel1),
                          Gps(center_lat + 900, center_lon + 1200), None)
RelistedPlace == Place(Some(<<"A", "b">>), Some(<<"x">>), Some(Tel2),
                       Gps(center_lat + 300, center_lon + 400), Some(TRUE))
AddressOnlyPlace == Place(Some(<<"C", "d">>), Some(<<"y">>), None, None, Some(TRUE))
BarePlace == Place(Some(<<"E", "f">>), None, None, None, None)

max_pages == 6
max_results == 100
FullPageSize == 20

\* a full page: FullPageSize records, cycling through the places above
FullPage ==
    LET order == <<NearPlace, CaseVariantPlace, RelistedPlace, AddressOnlyPlace,
                   BarePlace>>
    IN  [k \in 1..FullPageSize |-> order[((k - 1) % Len(order)) + 1]]

\* the pages the place search answers with: none, short ones, a full one
Pages ==
    {<< >>, <<NearPlace, CaseVariantPlace>>, <<RelistedPlace, AddressOnlyPlace>>,
     <<BarePlace>>, FullPage}

\* search.get_dict(): a dict without 'local_results', or one with a page
Responses ==
    {[has |-> FALSE, local_results |-> << >>]}
      \cup {[has |-> TRUE, local_results |-> pg] : pg \in Pages}

\* a request either raises or answers
RequestOutcomes ==
    {[raised |-> TRUE, response |-> [has |-> FALSE, local_results |-> << >>]]}
      \cup {[raised |-> FALSE, response |-> r] : r \in Responses}

\* The query of a chain with many stores: the place search answers it with
\* full pages of stores not seen before, the n-th store met being ChainPlace(n).
ChainQuery == <<"c">>
ChainPlace(n) ==
    Place(Some(<<"g", ToString(n)>>), Some(<<"x">>), Some(Tel1),
          Gps(center_lat + 300, center_lon + 400), Some(TRUE))
FreshPage(places) == [k \in 1..FullPageSize |-> ChainPlace(Len(places) + k)]
ChainOutcomes(places) ==
    {[raised |-> TRUE, response |-> [has |-> FALSE, local_results |-> << >>]],
     [raised |-> FALSE, response |-> [has |-> FALSE, local_results |-> << >>]],
     [raised |-> FALSE, response |-> [has |-> TRUE, local_results |-> FreshPage(places)]]}

\* geolocator.geocode(address): raises, finds nothing, or finds a location
GeocodeOutcomes ==
    {[kind |-> "raised", lat |-> 0, lon |-> 0],
     [kind |-> "not_found", lat |-> 0, lon |-> 0],
     [kind |-> "found", lat |-> center_lat + 300, lon |-> center_lon + 400],
     [kind |-> "found", lat |-> center_lat + 300, lon |-> center_lon + 401]}

----------------------------------------------------------------------------
(* Area search *)

\* the deduplication key of lines 790 and 792
place_key(p) == <<GetStr(p.title, << >>), GetStr(p.address, << >>)>>

\* the merge with the key set computed once per page and never added to
merge_page_stale_keys(places, page_results) ==
    LET existing_places == {place_key(places[k]) : k \in 1..Len(places)}
        fresh(place) == place_key(place) \notin existing_places
    IN  places \o SelectSeq(page_results, fresh)

\* the merge that lets a later record of a key take the place of the first
RECURSIVE merge_page_last_seen(_, _)
merge_page_last_seen(places, page_results) ==
    IF page_results = << >> THEN places
    ELSE LET place == Head(page_results)
             existing_places == {place_key(places[k]) : k \in 1..Len(places)}
         IN  merge_page_last_seen(
                 IF place_key(place) \notin existing_places
                   THEN Append(places, place)
                   ELSE [k \in 1..Len(places) |->
                           IF place_key(places[k]) = place_key(place)
                             THEN place ELSE places[k]],
                 Tail(page_results))

\* lines 789-795: append the records of a page whose key is not yet present
RECURSIVE merge_page(_, _)
merge_page(places, page_results) ==
    IF page_results = << >> THEN places
    ELSE LET place == Head(page_results)
             existing_places == {place_key(places[k]) : k \in 1..Len(places)}
         IN  merge_page(IF place_key(place) \notin existing_places
                          THEN Append(places, place)
                          ELSE places,
                        Tail(page_results))

\* lines 723-740: the nine points of the expanded search; 0.01 and 0.007
\* degrees are about 1110 and 777 metres
expand_offsets ==
    <<<<0, 0>>, <<1110, 0>>, <<-1110, 0>>, <<0, 1110>>, <<0, -1110>>,
      <<777, 777>>, <<-777, 777>>, <<777, -777>>, <<-777, -777>>>>

\* lines 713-747
build_search_locations(ur, rm, expand_search) ==
    IF ur /\ TruthyNum(rm)
      THEN generate_search_points(center_lat, center_lon, Val(rm))
    ELSE IF expand_search
      THEN [k \in 1..Len(expand_offsets) |->
              [lat |-> center_lat + expand_offsets[k][1],
               lon |-> center_lon + expand_offsets[k][2],
               zoom |-> state_zoom]]
    ELSE <<[lat |-> center_lat, lon |-> center_lon, zoom |-> state_zoom]>>

NoResponse == [has |-> FALSE, local_results |-> << >>]

\* lines 780-787: the response carries a page of records
has_page(response) == response.has /\ response.local_results # << >>

\* nothing fetched, merged or requested yet for the point
NoPaging == [fetched |-> 0, merged |-> 0, next_requests |-> 0]

RadiusChoices == {500}

\* lines 679-747: the search button, for the queries that may be entered
SearchFor(queries) ==
    /\ pc = "idle"
    /\ \E q \in queries, ur \in BOOLEAN, ft \in BOOLEAN,
          expand_search \in BOOLEAN, address_pending \in BOOLEAN,
          rm \in {None} \cup {Some(r) : r \in RadiusChoices} :
         /\ ur => rm # None
         /\ search_query' = q
         /\ use_radius' = ur
         /\ radius_meters' = rm
         /\ filter_takeout_only' = ft
         /\ IF q = << >> \/ address_pending
              THEN /\ pc' = "rejected"
                   /\ UNCHANGED <<search_locations, loc_idx>>
              ELSE /\ pc' = "request"
                   /\ search_locations' = build_search_locations(ur, rm, expand_search)
                   /\ loc_idx' = 1
    /\ UNCHANGED <<page, results, all_places, place_idx, phone_numbers, kept_coords>>
    /\ UNCHANGED state_zoom
    /\ UNCHANGED paging
    /\ UNCHANGED batch_vars

SearchButton == SearchFor({<< >>, <<"q">>})

\* the search button with the query of the chain
ChainSearchButton == SearchFor({ChainQuery})

\* lines 759-768 and 803-804: what a request of the area search may meet
\* when places are the records merged so far
ServiceOutcomes(places) ==
    IF search_query = ChainQuery THEN ChainOutcomes(places) ELSE RequestOutcomes

\* what an exception of the first request of a point does: nothing catches
\* it before the handler of lines 946-948
first_request_raised == "failed"

\* lines 751-770: the first request of the point loc_idx
FirstRequest ==
    /\ pc = "request"
    /\ \E out \in ServiceOutcomes(all_places) :
         IF out.raised
           THEN /\ pc' = first_request_raised
                /\ UNCHANGED <<results, page, paging>>
           ELSE /\ pc' = "while"
                /\ results' = out.response
                /\ page' = 0
                /\ paging' = [NoPaging EXCEPT
                                !.fetched = IF has_page(out.response) THEN 1 ELSE 0]
    /\ UNCHANGED <<search_query, use_radius, radius_meters, filter_takeout_only,
                   search_locations, loc_idx, all_places, place_idx,
                   phone_numbers, kept_coords>>
    /\ UNCHANGED state_zoom
    /\ UNCHANGED batch_vars

last_page_when_empty(page_results) == Len(page_results) = 0

\* line 798: a page shorter than a full one is the last page
last_page(page_results) == Len(page_results) < FullPageSize

\* lines 771-807: one iteration of the pagination loop
PageIteration ==
    /\ pc = "while"
    /\ page < max_pages
    /\ page' = page + 1
    /\ IF ~has_page(results)
         THEN /\ pc' = "point_end"
              /\ UNCHANGED <<all_places, results, paging>>
         ELSE /\ all_places' = merge_page(all_places, results.local_results)
              /\ IF last_page(results.local_results)
                   THEN /\ pc' = "point_end"
                        /\ paging' = [paging EXCEPT !.merged = @ + 1]
                        /\ UNCHANGED results
                   ELSE \E out \in ServiceOutcomes(all_places') :
                          IF out.raised
                            THEN /\ pc' = "point_end"
                                 /\ paging' = [paging EXCEPT !.merged = @ + 1,
                                                             !.next_requests = @ + 1]
                                 /\ UNCHANGED results
                            ELSE /\ pc' = "while"
                                 /\ paging' =
                                      [paging EXCEPT
                                         !.merged = @ + 1,
                                         !.next_requests = @ + 1,
                                         !.fetched = IF has_page(out.response)
                                                       THEN @ + 1 ELSE @]
                                 /\ results' = out.response
    /\ UNCHANGED <<search_query, use_radius, radius_meters, filter_takeout_only,
                   search_locations, loc_idx, place_idx, phone_numbers, kept_coords>>
    /\ UNCHANGED state_zoom
    /\ UNCHANGED batch_vars

\* the pagination loop of the point is over: a break, or the page count
PagingOver == pc = "point_end" \/ (pc = "while" /\ page >= max_pages)

enough_for_final_count(places) == Len(places) >= max_results

\* line 810: enough places for the filter to choose from
enough_places(places) == Len(places) >= max_results * 2

\* lines 771 and 809-815: the pagination loop is left; next point or filter
PointEnd ==
    /\ PagingOver
    /\ IF enough_places(all_places) \/ loc_idx >= Len(search_locations)
         THEN /\ pc' = "filter"
              /\ place_idx' = 1
              /\ UNCHANGED loc_idx
         ELSE /\ pc' = "request"
              /\ loc_idx' = loc_idx + 1
              /\ UNCHANGED place_idx
    /\ paging' = NoPaging
    /\ UNCHANGED <<search_query, use_radius, radius_meters, filter_takeout_only,
                   search_locations, page, results, all_places, phone_numbers,
                   kept_coords>>
    /\ UNCHANGED state_zoom
    /\ UNCHANGED batch_vars

\* defaults of the output row (lines 861-865), one-character stand-ins
TitleUnknown == <<"title unknown">>
NoPhone == <<"no phone">>
AddressUnknown == <<"address unknown">>

\* lines 820-849 for one place: the coordinates the filter arrives at
\* (place_lat, place_lon), given what the geocoder does if it is asked
resolved_coords(place, geo) ==
    LET gps == place.gps_coordinates
        lat0 == IF gps # None THEN Val(gps).latitude ELSE None
        lon0 == IF gps # None THEN Val(gps).longitude ELSE None
        address == IF TruthyStr(place.address) THEN Val(place.address)
                   ELSE GetStr(place.address_ja, << >>)
        repaired == /\ lat0 = None \/ lon0 = None
                    /\ address # << >>
                    /\ geo.kind = "found"
    IN  IF repaired THEN [lat |-> Some(geo.lat), lon |-> Some(geo.lon)]
        ELSE [lat |-> lat0, lon |-> lon0]

\* the radius test with the planner's 20% margin applied to it
radius_skip_with_margin(coords, rm) ==
    /\ coords.lat # None
    /\ coords.lon # None
    /\ calculate_distance(center_lat, center_lon, Val(coords.lat), Val(coords.lon))
         > (Val(rm) * 12) \div 10

\* lines 844-849: TRUE when the radius filter skips the place
radius_skip(coords, rm) ==
    /\ coords.lat # None
    /\ coords.lon # None
    /\ calculate_distance(center_lat, center_lon, Val(coords.lat), Val(coords.lon))
         > Val(rm)

\* lines 852-856: TRUE when the takeout filter skips the place
takeout_skip(place) ==
    LET so == place.service_options
        takeout == IF so.takeout # None /\ Val(so.takeout) THEN so.takeout
                   ELSE so.takeout_ja
    IN  ~(takeout # None /\ Val(takeout))

\* lines 861-882: the output row of a place
output_row(place, radius_on) ==
    LET gps == place.gps_coordinates
        with_distance ==
            /\ radius_on
            /\ gps # None
            /\ TruthyNum(Val(gps).latitude)
            /\ TruthyNum(Val(gps).longitude)
    IN  [name |-> GetStr(place.title, TitleUnknown),
         phone |-> IF TruthyStr(place.phone) THEN Val(place.phone)
                   ELSE GetStr(place.phone_ja, NoPhone),
         address |-> IF TruthyStr(place.address) THEN Val(place.address)
                     ELSE GetStr(place.address_ja, AddressUnknown),
         rating |-> place.rating,
         reviews |-> place.reviews,
         distance |-> IF with_distance
                        THEN Some(calculate_distance(center_lat, center_lon,
                                     Val(Val(gps).latitude), Val(Val(gps).longitude)))
                        ELSE None]

\* lines 818-882: one iteration of the filter loop
FilterPlace ==
    /\ pc = "filter"
    /\ place_idx <= Len(all_places)
    /\ \E geo \in GeocodeOutcomes :
         LET place == all_places[place_idx]
             radius_on == use_radius /\ TruthyNum(radius_meters)
             coords == IF radius_on THEN resolved_coords(place, geo)
                       ELSE [lat |-> None, lon |-> None]
         IN  IF \/ radius_on /\ radius_skip(coords, radius_meters)
                \/ filter_takeout_only /\ takeout_skip(place)
               THEN /\ place_idx' = place_idx + 1
                    /\ UNCHANGED <<pc, phone_numbers, kept_coords>>
             ELSE IF Len(phone_numbers) >= max_results
               THEN /\ pc' = "done"
                    /\ UNCHANGED <<place_idx, phone_numbers, kept_coords>>
             ELSE /\ phone_numbers' = Append(phone_numbers, output_row(place, radius_on))
                  /\ kept_coords' = Append(kept_coords, coords)
                  /\ place_idx' = place_idx + 1
                  /\ UNCHANGED pc
    /\ UNCHANGED <<search_query, use_radius, radius_meters, filter_takeout_only,
                   search_locations, loc_idx, page, results, all_places>>
    /\ UNCHANGED state_zoom
    /\ UNCHANGED paging
    /\ UNCHANGED batch_vars

\* lines 884-944: the filter loop is over, the rows are shown
FilterDone ==
    /\ pc = "filter"
    /\ place_idx > Len(all_places)
    /\ pc' = "done"
    /\ UNCHANGED <<search_query, use_radius, radius_meters, filter_takeout_only,
                   search_locations, loc_idx, page, results, all_places, place_idx,
                   phone_numbers, kept_coords>>
    /\ UNCHANGED state_zoom
    /\ UNCHANGED paging
    /\ UNCHANGED batch_vars

----------------------------------------------------------------------------
(* Name resolution: score_place, calculate_confidence,                      *)
(* search_phone_from_organic, search_store_by_name                          *)

\* str.strip(), the whitespace being the space character
RECURSIVE LStrip(_)
LStrip(str) == IF str # << >> /\ Head(str) = " " THEN LStrip(Tail(str)) ELSE str
RECURSIVE RStrip(_)
RStrip(str) ==
    IF str # << >> /\ str[Len(str)] = " "
      THEN RStrip(SubSeq(str, 1, Len(str) - 1))
      ELSE str
Strip(str) == RStrip(LStrip(str))

\* the substrings of line 148: U+652F U+5E97, U+672C U+5E97, U+5E97
branch_words == {<<"shi", "ten">>, <<"hon", "ten">>, <<"ten">>}

\* lines 123-150
score_place(place) ==
    LET title == GetStr(place.title, << >>)
    IN  (IF TruthyStr(place.phone) \/ TruthyStr(place.formatted_phone_number)
           THEN 50 ELSE 0)
        + (IF TruthyStr(place.address) THEN 20 ELSE 0)
        + (IF TruthyNum(place.rating) THEN 10 ELSE 0)
        + (IF TruthyNum(place.reviews) THEN 10 ELSE 0)
        - (IF \E x \in branch_words : Contains(x, title) THEN 5 ELSE 0)

\* lines 152-173; the tiers are Very High, High, Mid, Low
calculate_confidence(result) ==
    LET has_phone == result.phone # << >>
        has_address == result.address # << >>
        has_coords == TruthyNum(result.lat) /\ TruthyNum(result.lon)
    IN  IF has_phone /\ has_address /\ has_coords THEN "Very High"
        ELSE IF has_phone /\ has_address THEN "High"
        ELSE IF has_phone THEN "Mid"
        ELSE "Low"

IsDigit(c) == c \in {"0", "1", "2", "3", "4", "5", "6", "7", "8", "9"}

AllDigits(str, from, n) ==
    /\ from + n - 1 <= Len(str)
    /\ \A k \in from..(from + n - 1) : IsDigit(str[k])

\* the lengths <<a, b, c>> of the three digit groups of a match of
\* \d{2,4}-\d{2,4}-\d{3,4} that starts at position from
GroupsAt(str, from) ==
    {g \in (2..4) \X (2..4) \X (3..4) :
        /\ from + g[1] + g[2] + g[3] + 1 <= Len(str)
        /\ AllDigits(str, from, g[1])
        /\ str[from + g[1]] = "-"
        /\ AllDigits(str, from + g[1] + 1, g[2])
        /\ str[from + g[1] + 1 + g[2]] = "-"
        /\ AllDigits(str, from + g[1] + g[2] + 2, g[3])}

\* line 201: re.search, the leftmost match, each group as long as it can be
re_search_phone(str) ==
    LET starts == {from \in 1..Len(str) : GroupsAt(str, from) # {}}
    IN  IF starts = {} THEN None
        ELSE LET from == CHOOSE f \in starts : \A f2 \in starts : f <= f2
                 g == CHOOSE g1 \in GroupsAt(str, from) :
                        \A g2 \in GroupsAt(str, from) :
                           \/ g1[1] > g2[1]
                           \/ g1[1] = g2[1] /\ g1[2] > g2[2]
                           \/ g1[1] = g2[1] /\ g1[2] = g2[2] /\ g1[3] >= g2[3]
             IN  Some(SubSeq(str, from, from + g[1] + g[2] + g[3] + 1))

\* lines 198-205: the first snippet with a match gives the phone
RECURSIVE first_phone(_)
first_phone(organic_results) ==
    IF organic_results = << >> THEN << >>
    ELSE LET match == re_search_phone(GetStr(Head(organic_results).snippet, << >>))
         IN  IF match # None THEN Val(match)
             ELSE first_phone(Tail(organic_results))

search_phone_from_last_result(out) ==
    IF out.raised THEN << >>
    ELSE first_phone([k \in 1..Len(out.organic_results) |->
                        out.organic_results[Len(out.organic_results) + 1 - k]])

\* lines 186-207: what search_phone_from_organic returns for what the web
\* search does
search_phone_from_organic(out) ==
    IF out.raised THEN << >>
    ELSE first_phone(out.organic_results)

\* the records search_store_by_name returns (the keys are, in order,
\* success, error, and the Japanese column names of lines 222-232)
Result(success, error, name, phone, address, lat, lon, rating, reviews, confidence) ==
    [success |-> success, error |-> error, name |-> name, phone |-> phone,
     address |-> address, lat |-> lat, lon |-> lon, rating |-> rating,
     reviews |-> reviews, confidence |-> confidence]

ErrNotFound == <<"store not found">>
ErrException == <<"error: exception text">>

EmptyResult(error) ==
    Result(FALSE, Some(error), << >>, << >>, << >>, None, None, None, None, "Low")

\* the insertion of an element into a list sorted by descending score,
\* after the elements of equal score
RECURSIVE insert_by_score(_, _)
insert_by_score(sorted, place) ==
    IF sorted = << >> THEN <<place>>
    ELSE IF score_place(Head(sorted)) >= score_place(place)
      THEN <<Head(sorted)>> \o insert_by_score(Tail(sorted), place)
      ELSE <<place>> \o sorted

\* lines 260-261: the stable sort by descending score
RECURSIVE sort_by_score(_)
sort_by_score(places) ==
    IF places = << >> THEN << >>
    ELSE insert_by_score(sort_by_score(SubSeq(places, 1, Len(places) - 1)),
                         places[Len(places)])

select_place_last_of_ties(local_results) ==
    IF Len(local_results) > 1
      THEN Head(sort_by_score([k \in 1..Len(local_results) |->
                                 local_results[Len(local_results) + 1 - k]]))
    ELSE local_results[1]

\* lines 259-264
select_place(local_results) ==
    IF Len(local_results) > 1 THEN Head(sort_by_score(local_results))
    ELSE local_results[1]

\* line 269: the phone of a place, through its aliases
place_phone(place) ==
    IF TruthyStr(place.phone) THEN Val(place.phone)
    ELSE IF TruthyStr(place.formatted_phone_number)
      THEN Val(place.formatted_phone_number)
    ELSE GetStr(place.phone_ja, << >>)

\* lines 266-292: the record built from the selected place
place_result(place) ==
    LET gps == place.gps_coordinates
        r == Result(TRUE, None,
                    GetStr(place.title, << >>),
                    place_phone(place),
                    IF TruthyStr(place.address) THEN Val(place.address)
                    ELSE GetStr(place.address_ja, << >>),
                    IF gps # None THEN Val(gps).latitude ELSE None,
                    IF gps # None THEN Val(gps).longitude ELSE None,
                    place.rating, place.reviews, "Low")
    IN  [r EXCEPT !.confidence = calculate_confidence(r)]

\* line 255-257: the primary response carries at least one candidate
has_candidates(out) == out.has /\ out.local_results # << >>

\* lines 297-323: the record returned after the fallback
fallback_result(store_name, phone_from_organic) ==
    IF phone_from_organic # << >>
      THEN Result(TRUE, None, store_name, phone_from_organic, << >>,
                  None, None, None, None, "Mid")
      ELSE EmptyResult(ErrNotFound)

\* what a call of search_store_by_name ends with: a returned record, or an
\* exception that leaves the function
Returned(result) == [kind |-> "return", value |-> result]
Raised == [kind |-> "raise", value |-> EmptyResult(ErrException)]
NoOutcome == [kind |-> "none", value |-> EmptyResult(ErrException)]

\* the exception of the primary request left uncaught
primary_exception_uncaught == Raised

\* lines 325-337: an exception of the primary request is caught
on_primary_exception == Returned(EmptyResult(ErrException))

----------------------------------------------------------------------------
(* What the services answer to the requests of the name mode *)

\* candidates of the place search (ratings in tenths)
FullCandidate ==
    [Place(Some(<<"A", "b">>), Some(<<"x">>), Some(Tel1),
           Gps(center_lat + 300, center_lon + 400), None)
       EXCEPT !.rating = Some(45), !.reviews = Some(10)]
PhoneOnlyCandidate ==
    [Place(Some(<<"C", "d">>), None, None, None, None)
       EXCEPT !.formatted_phone_number = Some(Tel2)]
AliasPhoneCandidate ==
    [Place(Some(<<"E", "f">>), Some(<<"x">>), None, None, None)
       EXCEPT !.phone_ja = Some(Tel1)]
NoPhoneBranchCandidate ==
    Place(Some(<<"G", "hon", "ten">>), Some(<<"y">>), None,
          Gps(center_lat + 900, center_lon + 1200), None)
FarCandidate ==
    Place(Some(<<"I", "j">>), Some(<<"y">>), Some(Tel1),
          Gps(center_lat + 900, center_lon + 1200), None)
ZeroLatCandidate ==
    Place(Some(<<"K", "l">>), Some(<<"z">>), Some(Tel2), Gps(0, center_lon), None)

CandidateUniverse ==
    {FullCandidate, PhoneOnlyCandidate, AliasPhoneCandidate,
     NoPhoneBranchCandidate, FarCandidate, ZeroLatCandidate}

MaxCandidates == 2

CandidateLists ==
    UNION {[1..n -> CandidateUniverse] : n \in 0..MaxCandidates}

\* the primary request raises, or answers without 'local_results', or with
\* a list of candidates
MapsOutcomes ==
    {[raised |-> TRUE, has |-> FALSE, local_results |-> << >>],
     [raised |-> FALSE, has |-> FALSE, local_results |-> << >>]}
      \cup {[raised |-> FALSE, has |-> TRUE, local_results |-> l] : l \in CandidateLists}

NoMapsOutcome == [raised |-> FALSE, has |-> FALSE, local_results |-> << >>]

Snippet(text) == [snippet |-> text]

PlainSnippet == Snippet(Some(<<"o", "p", "e", "n", " ", "1", "0", "-", "2", "2">>))
TelSnippet == Snippet(Some(<<"t", "e", "l", " ">> \o Tel1 \o <<" ", "x">>))
LongDigitsSnippet ==
    Snippet(Some(<<"1", "2", "3", "4", "5", "-", "6", "7", "8", "9", "-",
                   "0", "1", "2", "3", "4">>))
NoTextResult == Snippet(None)

\* the web search raises, or answers with a list of results ('organic_results'
\* missing is the empty list)
OrganicOutcomes ==
    {[raised |-> TRUE, organic_results |-> << >>]}
      \cup {[raised |-> FALSE, organic_results |-> l] :
              l \in {<< >>, <<PlainSnippet>>, <<NoTextResult, PlainSnippet>>,
                     <<PlainSnippet, TelSnippet, LongDigitsSnippet>>,
                     <<LongDigitsSnippet, TelSnippet>>}}

NoOrganicOutcome == [raised |-> FALSE, organic_results |-> << >>]

\* the names of the uploaded file, lines 1049-1050: up to MaxNames cells that
\* dropna() keeps, the first with whitespace around it, the second of
\* whitespace only
MaxNames == 2
NameOf(k) ==
    IF k % 3 = 1 THEN <<" ", "m", " ">>
    ELSE IF k % 3 = 2 THEN <<" ">>
    ELSE <<"n">>
NameLists == {[k \in 1..n |-> NameOf(k)] : n \in 0..MaxNames}

\* the text of the fallback query, line 189
fallback_query(store_name) == store_name \o <<" ", "official", " ", "phone number">>

----------------------------------------------------------------------------
(* The name-mode batch *)

\* lines 1041-1074: the button of the batch.  location is "none" when no
\* place name is given, "found" when its geocoding succeeds, "failed" when
\* it does not.
BatchButton ==
    /\ bpc = "idle"
    /\ \E names \in NameLists, urc \in BOOLEAN, location \in {"none", "found", "failed"} :
         LET rm == IF urc THEN Some(500) ELSE None
             center == IF location = "found" \/ (location = "none" /\ urc)
                         THEN [lat |-> Some(center_lat), lon |-> Some(center_lon)]
                         ELSE [lat |-> None, lon |-> None]
             zoom_csv == IF TruthyNum(rm) THEN radius_to_zoom_level(Val(rm)) ELSE 14
             located == \/ location = "found"
                        \/ /\ location = "none"
                           /\ urc /\ TruthyNum(center.lat) /\ TruthyNum(center.lon)
         IN  /\ store_names' = names
             /\ use_radius_csv' = urc
             /\ radius_meters_csv' = rm
             /\ IF names = << >>
                  THEN /\ bpc' = "rejected"
                       /\ UNCHANGED <<center_csv, location_str_csv, idx>>
                  ELSE /\ bpc' = "resolve"
                       /\ center_csv' = center
                       /\ location_str_csv' =
                            IF located
                              THEN Some([lat |-> Val(center.lat), lon |-> Val(center.lon),
                                         zoom |-> zoom_csv])
                              ELSE None
                       /\ idx' = 1
    /\ UNCHANGED <<maps_results, calls, outcome, results_list>>
    /\ UNCHANGED <<organic, clock>>
    /\ UNCHANGED area_vars

\* lines 1081 and 235-292, 325-337: search_store_by_name is called for the
\* name idx and issues the primary request.  The early return of lines
\* 221-233 is never taken: without an API key the script stops at line 352.
PrimaryRequest ==
    /\ bpc = "resolve"
    /\ \E out \in MapsOutcomes :
         /\ maps_results' = out
         /\ calls' = <<[engine |-> "google_maps", q |-> Strip(store_names[idx]),
                        ll |-> location_str_csv]>>
         /\ IF out.raised
              THEN /\ outcome' = on_primary_exception
                   /\ bpc' = "row"
            ELSE IF has_candidates(out)
              THEN /\ outcome' = Returned(place_result(select_place(out.local_results)))
                   /\ bpc' = "row"
            ELSE /\ outcome' = NoOutcome
                 /\ bpc' = "fallback"
    /\ UNCHANGED <<store_names, use_radius_csv, radius_meters_csv, center_csv,
                   location_str_csv, idx, results_list>>
    /\ UNCHANGED <<organic, clock>>
    /\ UNCHANGED area_vars

\* lines 294-323 and 175-207: the fallback request and the return
FallbackRequest ==
    /\ bpc = "fallback"
    /\ \E out \in OrganicOutcomes :
         /\ calls' = Append(calls, [engine |-> "google",
                                    q |-> fallback_query(store_names[idx]),
                                    ll |-> None])
         /\ organic' = out
         /\ outcome' = Returned(fallback_result(store_names[idx],
                                                search_phone_from_organic(out)))
         /\ bpc' = "row"
    /\ UNCHANGED <<store_names, use_radius_csv, radius_meters_csv, center_csv,
                   location_str_csv, idx, maps_results, results_list>>
    /\ UNCHANGED clock
    /\ UNCHANGED area_vars

ErrExceedsRadius == <<"exceeds the radius">>

\* lines 1084-1113: the row of a name, from the record search_store_by_name
\* returned
row_result(store_name, result, urc, rm, center) ==
    LET row == [input |-> store_name, name |-> result.name, phone |-> result.phone,
                address |-> result.address, lat |-> result.lat, lon |-> result.lon,
                rating |-> result.rating, reviews |-> result.reviews,
                confidence |-> result.confidence,
                error |-> IF ~result.success THEN GetStr(result.error, << >>)
                          ELSE << >>,
                distance |-> None]
        checked == /\ urc /\ TruthyNum(rm)
                   /\ TruthyNum(center.lat) /\ TruthyNum(center.lon)
                   /\ TruthyNum(result.lat) /\ TruthyNum(result.lon)
        distance == calculate_distance(Val(center.lat), Val(center.lon),
                                       Val(result.lat), Val(result.lon))
    IN  IF ~checked THEN row
        ELSE IF distance > Val(rm)
          THEN [row EXCEPT !.distance = Some(distance), !.name = << >>,
                           !.phone = << >>, !.address = << >>,
                           !.error = ErrExceedsRadius]
        ELSE [row EXCEPT !.distance = Some(distance)]

\* lines 1081-1115, 1179-1181: search_store_by_name is back; its record
\* becomes a row, or its exception ends the batch
BuildRow ==
    /\ bpc = "row"
    /\ IF outcome.kind = "raise"
         THEN /\ bpc' = "crashed"
              /\ UNCHANGED results_list
         ELSE /\ bpc' = "sleep"
              /\ results_list' =
                   Append(results_list,
                          row_result(store_names[idx], outcome.value, use_radius_csv,
                                     radius_meters_csv, center_csv))
    /\ maps_results' = NoMapsOutcome
    /\ calls' = << >>
    /\ outcome' = NoOutcome
    /\ organic' = NoOrganicOutcome
    /\ UNCHANGED <<store_names, use_radius_csv, radius_meters_csv, center_csv,
                   location_str_csv, idx>>
    /\ UNCHANGED clock
    /\ UNCHANGED area_vars

\* time.sleep(0.5), line 1118, in milliseconds
inter_call_delay_ms == 500

\* the pause left out after a row with an error
Sleep_skipped_after_error ==
    /\ bpc = "sleep"
    /\ clock' = IF results_list[Len(results_list)].error # << >> THEN clock
                ELSE clock + inter_call_delay_ms
    /\ IF idx < Len(store_names)
         THEN /\ idx' = idx + 1
              /\ bpc' = "resolve"
         ELSE /\ bpc' = "done"
              /\ UNCHANGED idx
    /\ UNCHANGED <<store_names, use_radius_csv, radius_meters_csv, center_csv,
                   location_str_csv, maps_results, calls, outcome, results_list>>
    /\ UNCHANGED organic
    /\ UNCHANGED area_vars

\* lines 1118 and 1076: the pause, then the next name or the end
Sleep ==
    /\ bpc = "sleep"
    /\ clock' = clock + inter_call_delay_ms
    /\ IF idx < Len(store_names)
         THEN /\ idx' = idx + 1
              /\ bpc' = "resolve"
         ELSE /\ bpc' = "done"
              /\ UNCHANGED idx
    /\ UNCHANGED <<store_names, use_radius_csv, radius_meters_csv, center_csv,
                   location_str_csv, maps_results, calls, outcome, results_list>>
    /\ UNCHANGED organic
    /\ UNCHANGED area_vars

BatchNext ==
    \/ BatchButton
    \/ PrimaryRequest
    \/ FallbackRequest
    \/ BuildRow
    \/ Sleep

\* nothing has been searched yet
InitArea ==
    /\ pc = "idle"
    /\ search_query = << >>
    /\ use_radius = FALSE
    /\ radius_meters = None
    /\ filter_takeout_only = FALSE
    /\ search_locations = << >>
    /\ loc_idx = 0
    /\ page = 0
    /\ results = NoResponse
    /\ all_places = << >>
    /\ place_idx = 0
    /\ phone_numbers = << >>
    /\ kept_coords = << >>
    /\ paging = NoPaging
    /\ state_zoom = session_zoom
    /\ bpc = "idle"
    /\ store_names = << >>
    /\ use_radius_csv = FALSE
    /\ radius_meters_csv = None
    /\ center_csv = [lat |-> None, lon |-> None]
    /\ location_str_csv = None
    /\ idx = 0
    /\ maps_results = NoMapsOutcome
    /\ calls = << >>
    /\ outcome = NoOutcome
    /\ organic = NoOrganicOutcome
    /\ clock = 0
    /\ results_list = << >>

AreaNext ==
    \/ SearchButton
    \/ FirstRequest
    \/ PageIteration
    \/ PointEnd
    \/ FilterPlace
    \/ FilterDone

\* the area search alone
SpecArea == InitArea /\ [][AreaNext]_vars

\* the name-mode batch alone
InitBatch == InitArea
SpecBatch == InitBatch /\ [][BatchNext]_vars

----------------------------------------------------------------------------
(* The radius input and the planner *)

\* lines 635-641: the bounds and the step of the radius input
radius_min_value == 100
radius_max_value == 50000
radius_step == 100

RadiusInputs ==
    {radius_min_value + radius_step * k :
       k \in 0..((radius_max_value - radius_min_value) \div radius_step)}

\* the largest radius the planner is run with
MaxPlanRadius == 9000

\* lines 633-648: a radius is entered and the zoom level follows it
RadiusInput ==
    /\ pc = "idle"
    /\ \E r \in RadiusInputs :
         /\ use_radius' = TRUE
         /\ radius_meters' = Some(r)
         /\ state_zoom' = radius_to_zoom_level(r)
    /\ pc' = "radius_set"
    /\ UNCHANGED <<search_query, filter_takeout_only, search_locations, loc_idx,
                   page, results, all_places, place_idx, phone_numbers, kept_coords>>
    /\ UNCHANGED paging
    /\ UNCHANGED batch_vars

\* lines 714-716: the planner is run for the center and the radius
PlanSearchPoints ==
    /\ pc = "radius_set"
    /\ Val(radius_meters) <= MaxPlanRadius
    /\ search_locations' =
         generate_search_points(center_lat, center_lon, Val(radius_meters))
    /\ pc' = "planned"
    /\ UNCHANGED <<search_query, use_radius, radius_meters, filter_takeout_only,
                   loc_idx, page, results, all_places, place_idx, phone_numbers,
                   kept_coords, state_zoom>>
    /\ UNCHANGED paging
    /\ UNCHANGED batch_vars

PlanNext ==
    \/ RadiusInput
    \/ PlanSearchPoints

\* the dispatch of the points for the query of the chain, up to the filter
BudgetNext ==
    \/ ChainSearchButton
    \/ FirstRequest
    \/ PageIteration
    \/ PointEnd

InitBudget == InitArea
SpecBudget == InitBudget /\ [][BudgetNext]_vars

InitPlan == InitArea
\* the radius input and the planner alone
SpecPlan == InitPlan /\ [][PlanNext]_vars

----------------------------------------------------------------------------
(* Properties of the area search *)

RadiusBounded == use_radius /\ TruthyNum(radius_meters)

CoordsKnown(k) == kept_coords[k].lat # None /\ kept_coords[k].lon # None

DistanceOfKept(k) ==
    calculate_distance(center_lat, center_lon,
                       Val(kept_coords[k].lat), Val(kept_coords[k].lon))

\* C1: in a radius-bounded search no output row belongs to a record whose
\* coordinates could not be determined (no coordinates of its own, and an
\* address that is missing or that the geocoder does not resolve).
C1_UnverifiableRecordDropped ==
    RadiusBounded => \A k \in 1..Len(phone_numbers) : CoordsKnown(k)

\* C2: in a radius-bounded search every output row whose record has
\* coordinates, its own or geocoded from its address, lies within
\* radius_meters of the center.
C2_KeptWithinRadius ==
    RadiusBounded =>
        \A k \in 1..Len(phone_numbers) :
            CoordsKnown(k) => DistanceOfKept(k) <= Val(radius_meters)

\* a finished radius-bounded search whose output holds a record kept on its
\* own coordinates and one kept on geocoded coordinates, while a record of
\* the aggregate was dropped
C2_Witness ==
    /\ pc = "done"
    /\ RadiusBounded
    /\ Len(phone_numbers) < Len(all_places)
    /\ \E k \in 1..Len(phone_numbers) :
          phone_numbers[k].name = <<"A", "b">> /\ CoordsKnown(k)
    /\ \E k \in 1..Len(phone_numbers) :
          phone_numbers[k].name = <<"C", "d">> /\ CoordsKnown(k)

\* C3: no error of a request aborts the area search: the handler never ends
\* in the outer exception handler, where no point is searched any more and
\* the aggregate is not turned into rows.
C3_RequestErrorNonFatal == pc # "failed"

\* C8: at every moment no two records of the aggregate have the same
\* (title, address) key.
C8_AggregateKeysUnique ==
    \A i, j \in 1..Len(all_places) :
        i # j => place_key(all_places[i]) # place_key(all_places[j])

\* the aggregate after pages of two points were merged, the last one a full
\* page that repeats records of its own and of the aggregate
C8_Witness ==
    /\ loc_idx >= 2
    /\ pc = "while"
    /\ page >= 1
    /\ results.local_results = FullPage
    /\ Len(all_places) = 4
    /\ all_places[1] = RelistedPlace

LowerCase(c) ==
    CASE c = "A" -> "a"
      [] c = "B" -> "b"
      [] c = "C" -> "c"
      [] c = "D" -> "d"
      [] c = "E" -> "e"
      [] c = "F" -> "f"
      [] OTHER -> c

Lower(str) == [k \in 1..Len(str) |-> LowerCase(str[k])]

\* the key with name and address trimmed and folded to lower case
normalized_key(p) ==
    <<Lower(Strip(GetStr(p.title, << >>))), Lower(Strip(GetStr(p.address, << >>)))>>

\* C9: records whose names and addresses differ only in letter case or in
\* leading and trailing whitespace are one entity: no two records of the
\* aggregate have the same normalized key.
C9_NormalizedKeysUnique ==
    \A i, j \in 1..Len(all_places) :
        i # j => normalized_key(all_places[i]) # normalized_key(all_places[j])

----------------------------------------------------------------------------
(* Properties of the name resolution *)

FallbackIssued == \E k \in 1..Len(calls) : calls[k].engine = "google"

\* the primary request answered, and without a phone: no candidate, or a
\* selected candidate without a phone under any alias
PrimaryWithoutPhone ==
    /\ ~maps_results.raised
    /\ \/ ~has_candidates(maps_results)
       \/ place_phone(select_place(maps_results.local_results)) = << >>

\* C4: when search_store_by_name returns after a primary search that gave no
\* phone, it has issued the fallback query.
C4_FallbackWhenNoPhone ==
    (bpc = "row" /\ PrimaryWithoutPhone) => FallbackIssued

\* C5: when search_store_by_name returns after a primary request that
\* raised, it has issued the fallback query.
C5_PrimaryErrorFallsBack ==
    (bpc = "row" /\ maps_results.raised) => FallbackIssued

\* C6: search_store_by_name always returns a record, whatever the two
\* requests do, and the batch produces one row per name: it never ends in
\* its exception handler, and the rows keep step with the names.
C6_ResolveAlwaysReturns ==
    /\ bpc # "crashed"
    /\ bpc = "row" => outcome.kind = "return"
    /\ bpc \in {"resolve", "fallback", "row"} => Len(results_list) = idx - 1
    /\ bpc = "sleep" => Len(results_list) = idx
    /\ bpc = "done" => Len(results_list) = Len(store_names)

\* a finished batch with a row of a name whose primary request raised and a
\* row of a name whose fallback found nothing
C6_Witness ==
    /\ bpc = "done"
    /\ Len(results_list) >= 2
    /\ \E k \in 1..Len(results_list) : results_list[k].error = ErrException
    /\ \E k \in 1..Len(results_list) : results_list[k].error = ErrNotFound

\* C7: a returned record without a phone has its error set, every data
\* field empty and the tier Low.
C7_NoPhoneMeansEmptyLow ==
    (bpc = "row" /\ outcome.kind = "return" /\ outcome.value.phone = << >>) =>
        /\ outcome.value.error # None
        /\ outcome.value.name = << >>
        /\ outcome.value.address = << >>
        /\ outcome.value.lat = None
        /\ outcome.value.lon = None
        /\ outcome.value.rating = None
        /\ outcome.value.reviews = None
        /\ outcome.value.confidence = "Low"

\* the score as the scoring rule states it: the phone counts under every
\* alias the resolver reads
stated_score(place) ==
    LET title == GetStr(place.title, << >>)
    IN  (IF place_phone(place) # << >> THEN 50 ELSE 0)
        + (IF TruthyStr(place.address) THEN 20 ELSE 0)
        + (IF TruthyNum(place.rating) THEN 10 ELSE 0)
        + (IF TruthyNum(place.reviews) THEN 10 ELSE 0)
        - (IF \E x \in branch_words : Contains(x, title) THEN 5 ELSE 0)

\* C10: the score of every candidate of a primary response is the stated
\* one: 50 for a phone under any alias, 20 for an address, 10 for a rating,
\* 10 for a review count, less 5 for a branch word in the name.
C10_ScoreRule ==
    \A k \in 1..Len(maps_results.local_results) :
        score_place(maps_results.local_results[k])
          = stated_score(maps_results.local_results[k])

\* the highest score of a list of candidates, and the candidates that have it
top_score(l) ==
    CHOOSE m \in {score_place(l[k]) : k \in 1..Len(l)} :
        \A k \in 1..Len(l) : score_place(l[k]) <= m
top_indices(l) == {k \in 1..Len(l) : score_place(l[k]) = top_score(l)}
first_top_index(l) == CHOOSE k \in top_indices(l) : \A j \in top_indices(l) : k <= j

SeveralCandidates ==
    /\ bpc = "row"
    /\ outcome.kind = "return"
    /\ has_candidates(maps_results)
    /\ Len(maps_results.local_results) > 1

\* C11: of several candidates the resolver returns the record of the
\* earliest-listed candidate of the highest score, and when one candidate
\* alone has the highest score, it returns the same record for every order
\* of the list.
C11_SelectsEarliestTopScore ==
    SeveralCandidates =>
        LET l == maps_results.local_results
        IN  /\ outcome.value = place_result(l[first_top_index(l)])
            /\ Cardinality(top_indices(l)) = 1 =>
                  \A p \in Permutations(1..Len(l)) :
                      place_result(select_place([k \in 1..Len(l) |-> l[p[k]]]))
                        = outcome.value

\* two candidates of equal score, and the first of them returned
C11_Witness ==
    /\ SeveralCandidates
    /\ maps_results.local_results = <<FarCandidate, ZeroLatCandidate>>
    /\ score_place(FarCandidate) = score_place(ZeroLatCandidate)
    /\ outcome.value = place_result(FarCandidate)

\* the tier as stated: the coordinates are present when a latitude and a
\* longitude are given, whatever their value
stated_confidence(result) ==
    LET has_phone == result.phone # << >>
        has_address == result.address # << >>
        has_coords == result.lat # None /\ result.lon # None
    IN  IF has_phone /\ has_address /\ has_coords THEN "Very High"
        ELSE IF has_phone /\ has_address THEN "High"
        ELSE IF has_phone THEN "Mid"
        ELSE "Low"

C13_RowTierMatchesFields ==
    \A k \in 1..Len(results_list) :
        results_list[k].confidence = calculate_confidence(results_list[k])

\* C14: a row whose distance exceeds the radius carries the out-of-radius
\* error, has its resolved name, phone, address, coordinates, rating and
\* review count cleared, and no request for its name is pending or issued
\* after it.
C14_OutOfRadiusRowCleared ==
    \A k \in 1..Len(results_list) :
        (/\ results_list[k].distance # None
         /\ Val(results_list[k].distance) > Val(radius_meters_csv)) =>
            /\ results_list[k].error = ErrExceedsRadius
            /\ results_list[k].name = << >>
            /\ results_list[k].phone = << >>
            /\ results_list[k].address = << >>
            /\ results_list[k].lat = None
            /\ results_list[k].lon = None
            /\ results_list[k].rating = None
            /\ results_list[k].reviews = None
            /\ (bpc = "sleep" /\ k = Len(results_list)) => calls = << >>

\* a text of the form digits-digits-digits with 2 to 4, 2 to 4 and 3 to 4
\* digits
phone_shaped(t) ==
    \E a \in 2..4, b \in 2..4, c \in 3..4 :
        /\ Len(t) = a + b + c + 2
        /\ \A k \in 1..Len(t) :
              IF k = a + 1 \/ k = a + b + 2 THEN t[k] = "-" ELSE IsDigit(t[k])

\* the matches of the pattern in a text, as pairs of first and last position
pattern_matches(text) ==
    {m \in (1..Len(text)) \X (1..Len(text)) :
        m[1] <= m[2] /\ phone_shaped(SubSeq(text, m[1], m[2]))}

snippet_text(item) == IF item.snippet = None THEN << >> ELSE Val(item.snippet)

\* the first match of the snippets in their order: of the first snippet
\* that has a match, the match that starts first and, of these, the longest
stated_first_match(items) ==
    LET hits == {k \in 1..Len(items) : pattern_matches(snippet_text(items[k])) # {}}
    IN  IF hits = {} THEN << >>
        ELSE LET k == CHOOSE h \in hits : \A h2 \in hits : h <= h2
                 ms == pattern_matches(snippet_text(items[k]))
                 m == CHOOSE m1 \in ms : \A m2 \in ms :
                        m1[1] < m2[1] \/ (m1[1] = m2[1] /\ m1[2] >= m2[2])
             IN  SubSeq(snippet_text(items[k]), m[1], m[2])

\* the place search answered without a candidate and the fallback found a
\* phone
FallbackFoundPhone ==
    /\ bpc = "row"
    /\ outcome.kind = "return"
    /\ ~maps_results.raised
    /\ ~has_candidates(maps_results)
    /\ ~organic.raised
    /\ stated_first_match(organic.organic_results) # << >>

\* C15: when the place search returns no candidate, the phone of the record
\* is the first match of the pattern in the fallback snippets, in their
\* order, the tier is Mid, and the resolved name, address, coordinates,
\* rating and review count are empty.
C15_FallbackOnlyPhone ==
    FallbackFoundPhone =>
        /\ outcome.value.phone = stated_first_match(organic.organic_results)
        /\ outcome.value.confidence = "Mid"
        /\ outcome.value.name = << >>
        /\ outcome.value.address = << >>
        /\ outcome.value.lat = None
        /\ outcome.value.lon = None
        /\ outcome.value.rating = None
        /\ outcome.value.reviews = None

\* C15, amended: the phone is that first match, the tier is Mid, the
\* resolved name is the input name as it was given, and the address,
\* coordinates, rating and review count are empty.
C15_FallbackPhoneAndInputName ==
    FallbackFoundPhone =>
        /\ outcome.value.success
        /\ outcome.value.phone = stated_first_match(organic.organic_results)
        /\ outcome.value.confidence = "Mid"
        /\ outcome.value.name = store_names[idx]
        /\ outcome.value.address = << >>
        /\ outcome.value.lat = None
        /\ outcome.value.lon = None
        /\ outcome.value.rating = None
        /\ outcome.value.reviews = None

\* the second of three snippets is the first with a match
C15_Witness ==
    /\ FallbackFoundPhone
    /\ organic.organic_results = <<PlainSnippet, TelSnippet, LongDigitsSnippet>>
    /\ outcome.value.phone = Tel1
    /\ outcome.value.name = <<" ", "m", " ">>

\* C16: no request is issued with an empty query text or for a radius
\* outside the bounds of the radius input.
C16_NoRequestForMalformedInput ==
    \A k \in 1..Len(calls) :
        /\ calls[k].q # << >>
        /\ use_radius_csv =>
              /\ Val(radius_meters_csv) >= radius_min_value
              /\ Val(radius_meters_csv) <= radius_max_value

Planned == pc = "planned"

\* C17: the first point of the planner is the center itself, and every
\* point is at most 1.2 times the radius away from the center.
C17_CenterFirstAllWithinMargin ==
    Planned =>
        /\ search_locations[1].lat = center_lat
        /\ search_locations[1].lon = center_lon
        /\ \A k \in 1..Len(search_locations) :
              10 * calculate_distance(center_lat, center_lon,
                                      search_locations[k].lat, search_locations[k].lon)
                <= 12 * Val(radius_meters)

\* the plan of a radius of 2000 m, with points on the margin
C17_Witness ==
    /\ Planned
    /\ Val(radius_meters) = 2000
    /\ search_locations[1] = [lat |-> center_lat, lon |-> center_lon, zoom |-> 14]
    /\ \E k \in 2..Len(search_locations) :
          calculate_distance(center_lat, center_lon,
                             search_locations[k].lat, search_locations[k].lon) = 2400

PlannedFor500 == Planned /\ Val(radius_meters) = 500

\* C18: for a radius of 500 m the planner returns fewer than 10 points, all
\* within 600 m of the center.
C18_FewPointsFor500 ==
    PlannedFor500 =>
        /\ Len(search_locations) < 10
        /\ \A k \in 1..Len(search_locations) :
              calculate_distance(center_lat, center_lon,
                                 search_locations[k].lat, search_locations[k].lon) <= 600

\* C18, amended: for a radius of 500 m the planner returns between 25 and
\* 29 points, the center and lattice points at most three steps of 200 m
\* away, all within 600 m of the center.
C18_LatticeFor500 ==
    PlannedFor500 =>
        /\ Len(search_locations) >= 25
        /\ Len(search_locations) <= 29
        /\ \A k \in 1..Len(search_locations) :
              /\ calculate_distance(center_lat, center_lon,
                                    search_locations[k].lat, search_locations[k].lon) <= 600
              /\ (search_locations[k].lat - center_lat) % 200 = 0
              /\ (search_locations[k].lon - center_lon) % 200 = 0

C18_Witness ==
    /\ PlannedFor500
    /\ Len(search_locations) = 29
    /\ \E k \in 1..Len(search_locations) :
          search_locations[k] = [lat |-> center_lat + 600, lon |-> center_lon, zoom |-> 16]

\* the invocation of search_store_by_name for the name idx is under way
Invoking == bpc \in {"resolve", "fallback", "row"}

\* C19: the invocations of the batch are one after the other, and before the
\* invocation of a name starts, every earlier name has its row and a pause of
\* 500 ms has passed for each of them, whatever their outcome was.
C19_PauseBetweenInvocations ==
    Invoking =>
        /\ Len(results_list) = idx - 1
        /\ clock >= 500 * (idx - 1)
        /\ \A k \in 1..Len(calls) : calls[k].q \in {Strip(store_names[idx]),
                                                    fallback_query(store_names[idx])}

\* the second invocation starts 500 ms after a row that was out of radius
C19_Witness ==
    /\ bpc = "resolve"
    /\ idx = 2
    /\ clock = 500
    /\ results_list[1].error = ErrExceedsRadius

\* C20: the zoom level never grows with the radius: the zoom level of the
\* radius entered is at least the zoom level of every larger radius.
C20_ZoomNonIncreasing ==
    pc = "radius_set" =>
        \A r2 \in RadiusInputs :
            r2 >= Val(radius_meters) => state_zoom >= radius_to_zoom_level(r2)

\* a radius beyond the last threshold, at the lowest zoom level
C20_Witness ==
    /\ pc = "radius_set"
    /\ Val(radius_meters) = 20100
    /\ state_zoom = 10
    /\ radius_to_zoom_level(20000) = 11

\* C21: when the pagination of a point is over, every page of records a
\* request of that point returned has been merged into the aggregate.
C21_EveryFetchedPageMerged ==
    PagingOver => paging.merged = paging.fetched

\* the response in hand ends the pagination of the point, or a break has
\* ended it
Stopped ==
    \/ pc = "point_end"
    \/ /\ pc = "while"
       /\ \/ ~results.has
          \/ results.local_results = << >>
          \/ Len(results.local_results) < 20

\* C22: for a point at most 6 next-page requests are issued and at most 6
\* pages are merged, and after a response without a result list, with an
\* empty list or with fewer than 20 records, or after a failure to advance
\* the cursor, no further request is issued for the point.
C22_PageBudgetAndStops ==
    [][/\ paging'.next_requests <= 6
       /\ paging'.merged <= 6
       /\ Stopped =>
             /\ paging'.next_requests <= paging.next_requests
             /\ ~(pc' = "request" /\ loc_idx' = loc_idx)]_vars

\* six pages merged and six next-page requests issued for one point
C22_Witness ==
    /\ PagingOver
    /\ paging.merged = 6
    /\ paging.next_requests = 6

\* C23: a later point is requested only while the aggregate had fewer than
\* 200 records when the point before it finished, and the search goes to the
\* filter with points left only when the aggregate has 200 records or more.
C23_GlobalBudgetAtPointEnd ==
    /\ (pc = "request" /\ loc_idx > 1) => Len(all_places) < 200
    /\ (pc = "filter" /\ loc_idx < Len(search_locations)) => Len(all_places) >= 200

\* the budget is reached at the end of the second of nine points, after a
\* first point that stayed below it
C23_Witness ==
    /\ pc = "filter"
    /\ loc_idx = 2
    /\ Len(search_locations) = 9
    /\ Len(all_places) >= 200

\* a page is in hand for the merge
PageInHand == pc = "while" /\ page < max_pages /\ has_page(results)

\* C24: merging a record whose key is in the aggregate leaves the aggregate
\* as it is, the records already in the aggregate stay as they were first
\* seen, and merging the page in hand a second time changes nothing.
C24_MergeKeepsFirstSeen ==
    PageInHand =>
        LET incoming == results.local_results
            keys == {place_key(all_places[k]) : k \in 1..Len(all_places)}
            once == merge_page(all_places, incoming)
        IN  /\ \A k \in 1..Len(incoming) :
                  place_key(incoming[k]) \in keys =>
                      merge_page(all_places, <<incoming[k]>>) = all_places
            /\ Len(once) >= Len(all_places)
            /\ SubSeq(once, 1, Len(all_places)) = all_places
            /\ merge_page(once, incoming) = once

\* the page in hand relists, with another phone, a place of the aggregate
C24_Witness ==
    /\ PageInHand
    /\ all_places # << >>
    /\ all_places[1] = NearPlace
    /\ results.local_results = <<RelistedPlace, AddressOnlyPlace>>
    /\ place_key(RelistedPlace) = place_key(NearPlace)
    /\ RelistedPlace # NearPlace

\* C25: in a radius-bounded search every output row of a record kept on a
\* computed distance, from its own coordinates or from geocoded ones,
\* carries that distance.
C25_KeptDistanceAttached ==
    RadiusBounded =>
        \A k \in 1..Len(phone_numbers) :
            CoordsKnown(k) => phone_numbers[k].distance = Some(DistanceOfKept(k))

====
